---- MODULE Spec2Model ----
(***************************************************************************)
(* Model of the shell scope of tauri-plugin-unshell (src/scope.rs): the    *)
(* construction of a Scope, the validator/builder _prepare reached through *)
(* prepare and prepare_sidecar, and the open-path gate.                    *)
(*                                                                         *)
(* Strings are sequences of one-character strings.  A Regex is identified  *)
(* by its source text; is_match gives the meaning of the regexes used.     *)
(* Indices in errors are zero-based, as in the source.                     *)
(***************************************************************************)
EXTENDS Integers, Sequences, FiniteSets, TLC

VARIABLES raw, scope, constructed, parsed, call, result, sidecarCalls, openCalls

vars == <<raw, scope, constructed, parsed, call, result, sidecarCalls, openCalls>>

\* ---------------------------------------------------------------- bounds
MaxTemplate == 2
MaxArgs == 3

\* ------------------------------------------------------------ input sets
CommandNames == {"c1", "c2"}
Names == CommandNames \cup {"absent"}

ArgStrings == {<<>>, <<"1">>, <<"a">>}
FixedStrings == {<<"x">>, <<"y">>}
Validators == {"^1+$", "^a"}
OpenRegex == "^h.+"

Scripts == {<<>>, <<"/">>, <<"a">>, <<"b", "/", "a">>, <<"b", "/">>,
            <<"a", "/", ".">>, <<".", ".">>, <<".">>}
OpenPaths == {<<>>, <<"h">>, <<"h", "a">>, <<"f", "a">>}

SeqsUpTo(S, n) == UNION {[1..k -> S] : k \in 0..n}

\* ----------------------------------------------------------- data model
None == [some |-> FALSE]
Some(v) == [some |-> TRUE, v |-> v]

ArgsNone == [tag |-> "None"]
ArgsSingle(s) == [tag |-> "Single", string |-> s]
ArgsList(l) == [tag |-> "List", list |-> l]
ExecuteArgs == {ArgsNone} \cup {ArgsSingle(s) : s \in ArgStrings}
               \cup {ArgsList(l) : l \in SeqsUpTo(ArgStrings, MaxArgs)}

Fixed(s) == [fixed |-> TRUE, v |-> s]
Var(r) == [fixed |-> FALSE, validator |-> r]
ScopeAllowedArg == {Fixed(s) : s \in FixedStrings} \cup {Var(r) : r \in Validators}

ScopeAllowedCommand(c, a, s) == [command |-> c, args |-> a, sidecar |-> s]

RawCommand(n) == IF n = "c1" THEN <<"bin1">> ELSE <<"bin2">>

Templates == {None} \cup {Some(l) : l \in SeqsUpTo(ScopeAllowedArg, MaxTemplate)}

\* The raw configurations handed to Scope::new.  The second command is
\* always unconstrained (args: None); both may or may not be sidecars.
ScopeConfig ==
  {[open |-> o,
    scopes |-> [n \in CommandNames |->
                 ScopeAllowedCommand(RawCommand(n),
                                     IF n = "c1" THEN t ELSE None,
                                     IF n = "c1" THEN s1 ELSE s2)]] :
     o \in {None, Some(OpenRegex)}, t \in Templates,
     s1 \in BOOLEAN, s2 \in BOOLEAN}

\* --------------------------------------------------------------- errors
Ok(v) == [kind |-> "Ok", v |-> v]
\* Ok(()) of open.
OkUnit == [kind |-> "Ok"]
BadSidecarFlag == [kind |-> "BadSidecarFlag"]
Sidecar(m) == [kind |-> "Sidecar", msg |-> m]
NotFound(n) == [kind |-> "NotFound", name |-> n]
MissingVar(i, r) == [kind |-> "MissingVar", index |-> i, validation |-> r]
Validation(i, r) == [kind |-> "Validation", index |-> i, validation |-> r]
InvalidInput(n) == [kind |-> "InvalidInput", name |-> n]
Io(m) == [kind |-> "Io", msg |-> m]
\* unwrap() on None and unreachable!() abort the call.
Panic == [kind |-> "Panic"]

ErrorKinds == {"BadSidecarFlag", "Sidecar", "NotFound", "MissingVar",
               "Validation", "InvalidInput", "Io"}

\* ------------------------------------------------------- ExecuteArgs
is_empty_SingleNotEmpty(args) ==
  CASE args.tag = "None" -> TRUE
    [] args.tag = "List" -> args.list = <<>>
    [] OTHER -> FALSE

is_empty(args) ==
  CASE args.tag = "None" -> TRUE
    [] args.tag = "Single" /\ args.string = <<>> -> TRUE
    [] args.tag = "List" -> args.list = <<>>
    [] OTHER -> FALSE

is_fixed_Always(arg) == TRUE

is_fixed(arg) == arg.fixed

\* Regex::is_match for the regexes of the model (a search, anchored only
\* where the regex anchors it).
is_match(regex, text) ==
  CASE regex = "^1+$" -> Len(text) > 0 /\ \A i \in 1..Len(text) : text[i] = "1"
    [] regex = "^a" -> Len(text) > 0 /\ text[1] = "a"
    [] regex = "^h.+" -> Len(text) > 1 /\ text[1] = "h"
    [] OTHER -> FALSE

\* ------------------------------------------------------------ paths
\* The pieces of a path between separators, empty pieces included.
RECURSIVE Split(_)
Split(s) ==
  IF s = <<>> THEN <<<<>>>>
  ELSE LET rest == Split(Tail(s))
       IN IF Head(s) = "/" THEN <<<<>>>> \o rest
          ELSE <<<<Head(s)>> \o Head(rest)>> \o Tail(rest)

has_root(s) == s # <<>> /\ s[1] = "/"

\* Path::components on Unix: the root directory if the path is absolute,
\* then every piece that is neither empty nor ".", except that a leading
\* "." of a relative path is kept.
components(s) ==
  LET pieces == Split(s)
      keep(k) == /\ pieces[k] # <<>>
                 /\ pieces[k] = <<".">> => (k = 1 /\ ~has_root(s))
      RECURSIVE from(_)
      from(k) == IF k > Len(pieces) THEN <<>>
                 ELSE (IF keep(k) THEN <<pieces[k]>> ELSE <<>>) \o from(k + 1)
  IN (IF has_root(s) THEN <<<<"/">>>> ELSE <<>>) \o from(1)

\* PathBuf::to_string_lossy: every path of the model is valid UTF-8, for
\* which the conversion returns the path's own text.
to_string_lossy(p) == p

\* manager.path().parse: the resolved form of a raw command path.
parse(p) == <<"/res">> \o p

\* Command::new and Command::new_sidecar(program), and Command::args.
CommandNew(program) == [program |-> program, args |-> <<>>]
CommandNewSidecar(program) == [program |-> <<"/exe">> \o program, args |-> <<>>]
CommandArgs(cmd, args) == [cmd EXCEPT !.args = cmd.args \o args]

\* --------------------------------------------------------------- Scope
\* Scope::new: every command of the configuration is handed to the path
\* resolver; `ok` is the set of paths the resolver succeeds on.
new(config, ok) ==
  [scope |-> [config EXCEPT !.scopes =
                [n \in DOMAIN config.scopes |->
                   IF config.scopes[n].command \in ok
                   THEN [config.scopes[n] EXCEPT !.command = parse(@)]
                   ELSE config.scopes[n]]],
   parsed |-> {config.scopes[n].command : n \in DOMAIN config.scopes}]

\* One template entry at zero-based index i against the supplied list.
map_arg_UseSupplied(arg, args, i) ==
  IF i >= Len(args) THEN
    IF arg.fixed THEN Ok(arg.v) ELSE MissingVar(i, arg.validator)
  ELSE IF arg.fixed \/ is_match(arg.validator, args[i + 1]) THEN Ok(args[i + 1])
  ELSE Validation(i, arg.validator)

map_arg(arg, args, i) ==
  IF arg.fixed THEN Ok(arg.v)
  ELSE IF i >= Len(args) THEN MissingVar(i, arg.validator)
  ELSE IF is_match(arg.validator, args[i + 1]) THEN Ok(args[i + 1])
  ELSE Validation(i, arg.validator)

\* list.iter().enumerate().map(..).collect::<Result<Vec<_>, _>>(): the
\* values in order, or the error of the first entry that fails.
RECURSIVE collect(_, _, _)
collect(list, args, i) ==
  IF i >= Len(list) THEN Ok(<<>>)
  ELSE LET r == map_arg(list[i + 1], args, i)
       IN IF r.kind # "Ok" THEN r
          ELSE LET rest == collect(list, args, i + 1)
               IN IF rest.kind # "Ok" THEN rest ELSE Ok(<<r.v>> \o rest.v)

\* The arm for an all-fixed template called with empty arguments.
collect_fixed(list) ==
  IF \E i \in 1..Len(list) : ~list[i].fixed THEN Panic
  ELSE Ok([i \in 1..Len(list) |-> list[i].v])

\* match (&command.args, args): the arms in source order.
match_args(command, command_name, args) ==
  CASE ~command.args.some /\ args.tag = "None" -> Ok(<<>>)
    [] ~command.args.some /\ args.tag = "List" -> Ok(args.list)
    [] ~command.args.some /\ args.tag = "Single" -> Ok(<<args.string>>)
    [] command.args.some /\ args.tag = "List" -> collect(command.args.v, args.list, 0)
    [] /\ command.args.some /\ args.tag # "List" /\ is_empty(args)
       /\ \A i \in 1..Len(command.args.v) : is_fixed(command.args.v[i])
       -> collect_fixed(command.args.v)
    [] OTHER -> InvalidInput(command_name)

\* The program text: the last component of the sidecar script, or the
\* command's own path.  last() of no components is None and unwrap aborts.
command_s_WholeScript(command, sidecar) ==
  IF sidecar.some THEN Ok(to_string_lossy(sidecar.v))
  ELSE Ok(to_string_lossy(command.command))

command_s(command, sidecar) ==
  IF sidecar.some
  THEN LET c == components(sidecar.v)
       IN IF c = <<>> THEN Panic ELSE Ok(to_string_lossy(c[Len(c)]))
  ELSE Ok(to_string_lossy(command.command))

\* Command::new_sidecar / Command::new on the program text; `sidecarOk`
\* says whether the sidecar locator succeeds.  `calls` are the programs
\* handed to the sidecar locator.
build(command, program, args, sidecarOk) ==
  IF command.sidecar
  THEN [result |-> IF sidecarOk
                   THEN Ok(CommandArgs(CommandNewSidecar(program), args))
                   ELSE Sidecar("not found"),
        calls |-> <<program>>]
  ELSE [result |-> Ok(CommandArgs(CommandNew(program), args)), calls |-> <<>>]

Fail(r) == [result |-> r, calls |-> <<>>]

_prepare_NoFlagCheck(s, command_name, args, sidecar, sidecarOk) ==
  IF command_name \notin DOMAIN s.scopes THEN Fail(NotFound(command_name))
  ELSE LET command == s.scopes[command_name]
           a == match_args(command, command_name, args)
           p == command_s(command, sidecar)
       IN IF a.kind # "Ok" THEN Fail(a)
          ELSE IF p.kind # "Ok" THEN Fail(p)
          ELSE build(command, p.v, a.v, sidecarOk)

_prepare_LocateFirst(s, command_name, args, sidecar, sidecarOk) ==
  IF command_name \notin DOMAIN s.scopes THEN Fail(NotFound(command_name))
  ELSE LET command == s.scopes[command_name]
           a == match_args(command, command_name, args)
           p == command_s(command, sidecar)
       IN IF command.sidecar # sidecar.some THEN Fail(BadSidecarFlag)
          ELSE IF p.kind # "Ok" THEN Fail(p)
          ELSE IF a.kind # "Ok"
               THEN [result |-> a, calls |-> build(command, p.v, <<>>, sidecarOk).calls]
          ELSE build(command, p.v, a.v, sidecarOk)

_prepare(s, command_name, args, sidecar, sidecarOk) ==
  IF command_name \notin DOMAIN s.scopes THEN Fail(NotFound(command_name))
  ELSE LET command == s.scopes[command_name]
           a == match_args(command, command_name, args)
           p == command_s(command, sidecar)
       IN IF command.sidecar # sidecar.some THEN Fail(BadSidecarFlag)
          ELSE IF a.kind # "Ok" THEN Fail(a)
          ELSE IF p.kind # "Ok" THEN Fail(p)
          ELSE build(command, p.v, a.v, sidecarOk)

prepare(s, command_name, args) == _prepare(s, command_name, args, None, TRUE)

prepare_sidecar(s, command_name, command_script, args, sidecarOk) ==
  _prepare(s, command_name, args, Some(command_script), sidecarOk)

\* Scope::open: the regex gate, then ::open::with / ::open::that; `openOk`
\* says whether the platform handler succeeds.
open_Ungated(s, path, with, openOk) ==
  [result |-> IF openOk THEN OkUnit ELSE Io("open failed"),
   calls |-> <<IF with.some THEN [fn |-> "with", path |-> path, program |-> with.v]
               ELSE [fn |-> "that", path |-> path]>>]

open(s, path, with, openOk) ==
  IF s.open.some /\ ~is_match(s.open.v, path)
  THEN [result |-> Validation(0, s.open.v), calls |-> <<>>]
  ELSE [result |-> IF openOk THEN OkUnit ELSE Io("open failed"),
        calls |-> <<IF with.some THEN [fn |-> "with", path |-> path, program |-> with.v]
                    ELSE [fn |-> "that", path |-> path]>>]

\* ------------------------------------------------------ state machine
NoCall == [op |-> "none"]
EmptyScope == [open |-> None, scopes |-> [n \in {} |-> None]]

Init ==
  /\ raw \in ScopeConfig
  /\ scope = EmptyScope
  /\ constructed = FALSE
  /\ parsed = {}
  /\ call = NoCall
  /\ result = OkUnit
  /\ sidecarCalls = <<>>
  /\ openCalls = <<>>

New ==
  /\ ~constructed
  /\ \E ok \in SUBSET {RawCommand(n) : n \in CommandNames} :
       LET r == new(raw, ok)
       IN /\ scope' = r.scope
          /\ parsed' = r.parsed
  /\ constructed' = TRUE
  /\ UNCHANGED <<raw, call, result, sidecarCalls, openCalls>>

Prepare ==
  /\ constructed
  /\ call = NoCall
  /\ \E n \in Names, a \in ExecuteArgs :
       LET r == prepare(scope, n, a)
       IN /\ call' = [op |-> "prepare", name |-> n, args |-> a]
          /\ result' = r.result
          /\ sidecarCalls' = r.calls
  /\ openCalls' = <<>>
  /\ UNCHANGED <<raw, scope, constructed, parsed>>

PrepareSidecar ==
  /\ constructed
  /\ call = NoCall
  /\ \E n \in Names, sc \in Scripts, a \in ExecuteArgs, sidecarOk \in BOOLEAN :
       LET r == prepare_sidecar(scope, n, sc, a, sidecarOk)
       IN /\ call' = [op |-> "prepare_sidecar", name |-> n, script |-> sc, args |-> a]
          /\ result' = r.result
          /\ sidecarCalls' = r.calls
  /\ openCalls' = <<>>
  /\ UNCHANGED <<raw, scope, constructed, parsed>>

Open ==
  /\ constructed
  /\ call = NoCall
  /\ \E path \in OpenPaths, with \in {None, Some("firefox")}, openOk \in BOOLEAN :
       LET r == open(scope, path, with, openOk)
       IN /\ call' = [op |-> "open", path |-> path, with |-> with]
          /\ result' = r.result
          /\ openCalls' = r.calls
  /\ sidecarCalls' = <<>>
  /\ UNCHANGED <<raw, scope, constructed, parsed>>

\* The caller takes the result; the scope is ready for the next request.
Return ==
  /\ call # NoCall
  /\ call' = NoCall
  /\ result' = OkUnit
  /\ sidecarCalls' = <<>>
  /\ openCalls' = <<>>
  /\ UNCHANGED <<raw, scope, constructed, parsed>>

Next == New \/ Prepare \/ PrepareSidecar \/ Open \/ Return

Spec == Init /\ [][Next]_vars

\* ------------------------------------------------------------- claims
IsPrepare == call.op \in {"prepare", "prepare_sidecar"}
ScriptSupplied == call.op = "prepare_sidecar"
Found == IsPrepare /\ call.name \in DOMAIN scope.scopes
Rec == scope.scopes[call.name]
FlagOk == Found /\ Rec.sidecar = ScriptSupplied
EmptyShapes == {ArgsNone, ArgsSingle(<<>>), ArgsList(<<>>)}
HasVar(list) == \E i \in 1..Len(list) : ~list[i].fixed
FixedValues(list) == [i \in 1..Len(list) |-> list[i].v]

\* Zero-based template indices whose Variable entry the supplied list fails.
Failing(list, supplied) ==
  {i \in 0..(Len(list) - 1) :
     /\ ~list[i + 1].fixed
     /\ \/ i >= Len(supplied)
        \/ ~is_match(list[i + 1].validator, supplied[i + 1])}
Min(S) == CHOOSE m \in S : \A k \in S : m <= k
Expected(list, supplied) ==
  [i \in 1..Len(list) |-> IF list[i].fixed THEN list[i].v ELSE supplied[i]]

\* C1: an absent command name gives NotFound(name) and a sidecar-flag
\* mismatch gives BadSidecarFlag, whatever the arguments and the script;
\* neither invokes the sidecar locator nor produces a descriptor.
C1_LookupThenFlag ==
  IsPrepare =>
    /\ ~Found => result = NotFound(call.name) /\ sidecarCalls = <<>>
    /\ (Found /\ ~FlagOk) => result = BadSidecarFlag /\ sidecarCalls = <<>>

\* A sidecar record called through prepare with arguments that would fail
\* reconciliation.
C1_Witness ==
  /\ call.op = "prepare" /\ Found /\ Rec.sidecar
  /\ Rec.args.some /\ HasVar(Rec.args.v)
  /\ call.args = ArgsSingle(<<"a">>)
  /\ result = BadSidecarFlag

\* C2: with a template and List(supplied), reconciliation is positional
\* and driven by the template: it fails with the error of the smallest
\* failing template index (MissingVar when supplied is too short,
\* Validation when the value does not match), and otherwise resolves to the
\* template's length, Fixed literals and supplied values in place.
C2_Positional ==
  (FlagOk /\ Rec.args.some /\ call.args.tag = "List") =>
    LET list == Rec.args.v
        supplied == call.args.list
        bad == Failing(list, supplied)
    IN IF bad # {}
       THEN LET i == Min(bad)
            IN result = IF i >= Len(supplied)
                        THEN MissingVar(i, list[i + 1].validator)
                        ELSE Validation(i, list[i + 1].validator)
       ELSE /\ result.kind \notin {"MissingVar", "Validation", "InvalidInput"}
            /\ call.op = "prepare" => result.kind = "Ok"
            /\ result.kind = "Ok" => result.v.args = Expected(list, supplied)

\* A Fixed entry over a supplied value, a matching Variable, and a supplied
\* value beyond the template's length.
C2_Witness ==
  /\ call.op = "prepare" /\ FlagOk
  /\ Rec.args = Some(<<Fixed(<<"x">>), Var("^1+$")>>)
  /\ call.args = ArgsList(<<<<"a">>, <<"1">>, <<"a">>>>)
  /\ result.kind = "Ok"
  /\ result.v.args = <<<<"x">>, <<"1">>>>

\* C3: an empty template (Some([])) with any non-empty arguments fails
\* with InvalidInput(name).
C3_EmptyTemplateRejects ==
  (call.op = "prepare" /\ FlagOk /\ Rec.args = Some(<<>>)
     /\ call.args \notin EmptyShapes)
    => result = InvalidInput(call.name)

\* C4 as stated: a template with a Variable entry called with Single or
\* with any empty arguments fails with InvalidInput(name).
C4_Original ==
  (call.op = "prepare" /\ FlagOk /\ Rec.args.some /\ HasVar(Rec.args.v)
     /\ (call.args.tag = "Single" \/ call.args \in EmptyShapes))
    => result = InvalidInput(call.name)

\* C4 amended: a template with a Variable entry called with Single (any
\* string) or None fails with InvalidInput(name); called with an empty List
\* it fails with MissingVar(i, pattern) for the first Variable index i.
C4_Amended ==
  (call.op = "prepare" /\ FlagOk /\ Rec.args.some /\ HasVar(Rec.args.v)) =>
    /\ call.args.tag \in {"Single", "None"} => result = InvalidInput(call.name)
    /\ call.args = ArgsList(<<>>) =>
         LET i == Min({k \in 0..(Len(Rec.args.v) - 1) : ~Rec.args.v[k + 1].fixed})
         IN result = MissingVar(i, Rec.args.v[i + 1].validator)

C4_Witness ==
  /\ call.op = "prepare" /\ FlagOk
  /\ Rec.args = Some(<<Fixed(<<"x">>), Var("^a")>>)
  /\ call.args = ArgsNone
  /\ result = InvalidInput(call.name)

\* C5: a template of Fixed entries only, called with None, Single("") or
\* List([]), succeeds with exactly the template's fixed values in order.
C5_FixedOnly ==
  (call.op = "prepare" /\ FlagOk /\ Rec.args.some /\ ~HasVar(Rec.args.v)
     /\ call.args \in EmptyShapes)
    => /\ result.kind = "Ok"
       /\ result.v.args = FixedValues(Rec.args.v)

C5_Witness ==
  /\ call.op = "prepare" /\ FlagOk
  /\ Rec.args = Some(<<Fixed(<<"x">>), Fixed(<<"y">>)>>)
  /\ call.args = ArgsSingle(<<>>)
  /\ result.kind = "Ok"
  /\ result.v.args = <<<<"x">>, <<"y">>>>

\* C6: the program of a successful prepare is the record's program as
\* held by the scope; the program of a successful prepare_sidecar is built
\* from the last component of the script, which holds no separator unless
\* it is the root itself.
C6_Program ==
  (IsPrepare /\ result.kind = "Ok") =>
    IF call.op = "prepare"
    THEN result.v.program = Rec.command
    ELSE LET c == components(call.script)
         IN /\ c # <<>>
            /\ sidecarCalls = <<c[Len(c)]>>
            /\ result.v.program = CommandNewSidecar(c[Len(c)]).program
            /\ c[Len(c)] = <<"/">> \/ \A k \in 1..Len(c[Len(c)]) : c[Len(c)][k] # "/"

C6_Witness ==
  /\ call.op = "prepare_sidecar"
  /\ call.script = <<"b", "/", "a">>
  /\ result.kind = "Ok"
  /\ result.v.program = <<"/exe", "a">>

\* C7: open returns Validation{0, pattern} without invoking the handler
\* when a pattern is configured and the path does not match; otherwise the
\* handler is invoked exactly once with the path and the optional program,
\* and its failure is returned as Io.
C7_OpenGate ==
  call.op = "open" =>
    IF scope.open.some /\ ~is_match(scope.open.v, call.path)
    THEN result = Validation(0, scope.open.v) /\ openCalls = <<>>
    ELSE /\ Len(openCalls) = 1
         /\ openCalls[1].path = call.path
         /\ IF call.with.some
            THEN openCalls[1].fn = "with" /\ openCalls[1].program = call.with.v
            ELSE openCalls[1].fn = "that"
         /\ result.kind \in {"Ok", "Io"}

C7_Witness ==
  /\ call.op = "open"
  /\ scope.open = Some(OpenRegex)
  /\ call.path = <<"f", "a">>
  /\ result = Validation(0, OpenRegex)
  /\ openCalls = <<>>

\* C8: every call returns a success value or one of the seven errors; no
\* call panics.
C8_NoPanic ==
  call # NoCall => result.kind \in {"Ok"} \cup ErrorKinds

\* C9: after construction a sidecar entry holds its raw program and was
\* not handed to the resolver; a non-sidecar entry holds the resolved path
\* or, when resolution failed, its raw program.
C9_SidecarsNotResolved ==
  constructed =>
    \A n \in DOMAIN scope.scopes :
      IF raw.scopes[n].sidecar
      THEN /\ scope.scopes[n].command = raw.scopes[n].command
           /\ raw.scopes[n].command \notin parsed
      ELSE scope.scopes[n].command \in
             {raw.scopes[n].command, parse(raw.scopes[n].command)}

\* C10: the sidecar locator is invoked at most once per request and only
\* by a prepare_sidecar whose lookup, flag check and reconciliation all
\* succeeded; a request failing with NotFound, BadSidecarFlag, MissingVar,
\* Validation or InvalidInput invokes no collaborator and carries no
\* descriptor.
C10_LocatorLast ==
  /\ Len(sidecarCalls) <= 1
  /\ sidecarCalls # <<>> =>
       /\ call.op = "prepare_sidecar" /\ FlagOk
       /\ Failing(IF Rec.args.some THEN Rec.args.v ELSE <<>>,
                  IF call.args.tag = "List" THEN call.args.list ELSE <<>>) = {}
       /\ result.kind \in {"Ok", "Sidecar"}
  /\ result.kind \in {"NotFound", "BadSidecarFlag", "MissingVar",
                      "Validation", "InvalidInput"} =>
       /\ sidecarCalls = <<>> /\ openCalls = <<>>
       /\ "v" \notin DOMAIN result

C10_Witness ==
  /\ call.op = "prepare_sidecar" /\ FlagOk
  /\ Rec.args.some /\ HasVar(Rec.args.v)
  /\ Len(sidecarCalls) = 1
  /\ result.kind = "Sidecar"

====
